---- MODULE Spec2Model ----
(***************************************************************************)
(* Model of the two non-preemptive scheduling engines of the repository:   *)
(*   src/fcfs_scheduler.py                        (FCFS)                   *)
(*   src/schedulers/sjf_scheduler_non_preemptive.py (SJF-NP)               *)
(* One behaviour is one run of one engine: a caller admits processes with  *)
(* add_process and then calls execute().  The caller is either the         *)
(* __main__ block of the file (driver = "main") or an arbitrary caller     *)
(* that admits any processes from bounded sets (driver = "any").           *)
(*                                                                         *)
(* An optional value (int | None, Process | None) is a sequence of length  *)
(* at most one: None is << >> and the value v is << v >>.                  *)
(* A p_id 'Pk' is modelled by the number k.                                *)
(***************************************************************************)
EXTENDS Integers, Sequences, FiniteSets, TLC

VARIABLES engine, driver, admitted, running, ready_queue, history, total_t,
          pc, err

vars == <<engine, driver, admitted, running, ready_queue, history, total_t,
          pc, err>>

\* ---------------------------------------------------------------- bounds
MaxProcs == 3
MaxArrival == 2
MaxBurst == 2

\* arrival and burst times an arbitrary caller may pass; the code validates
\* neither, so a zero and a negative burst time are among the inputs
Arrivals == 0..MaxArrival
Bursts == (-1)..MaxBurst

None == << >>

\* ---------------------------------------------------------------- Process
Process(p_id, arrival_t, burst_t) ==
    [p_id |-> p_id, arrival_t |-> arrival_t, burst_t |-> burst_t,
     completion_t |-> None, turnaround_t |-> None, waiting_t |-> None]

\* variant: the guard of set_completion_t written with <= instead of <
set_completion_t_raises_le(p, completion_t) == completion_t <= p.burst_t

\* set_completion_t raises InvalidCompletionTimeError, before any assignment
set_completion_t_raises(p, completion_t) == completion_t < p.burst_t

\* variant: the field assigned before the guard is tested
set_completion_t_assign_first(p, completion_t) ==
    [p EXCEPT !.completion_t = <<completion_t>>]

set_completion_t(p, completion_t) ==
    IF completion_t < p.burst_t
    THEN p
    ELSE [p EXCEPT !.completion_t = <<completion_t>>]

\* variant: the turnaround time computed without the arrival time
set_turnaround_t_no_arrival(p) ==
    IF p.completion_t = None
    THEN p
    ELSE [p EXCEPT !.turnaround_t = <<p.completion_t[1]>>]

set_turnaround_t(p) ==
    IF p.completion_t = None
    THEN p
    ELSE [p EXCEPT !.turnaround_t = <<p.completion_t[1] - p.arrival_t>>]

\* variant: the waiting time computed from the completion time
set_waiting_t_from_completion(p) ==
    IF p.turnaround_t = None
    THEN p
    ELSE [p EXCEPT !.waiting_t = <<p.completion_t[1] - p.burst_t>>]

set_waiting_t(p) ==
    IF p.turnaround_t = None
    THEN p
    ELSE [p EXCEPT !.waiting_t = <<p.turnaround_t[1] - p.burst_t>>]

\* ------------------------------------------------------- list operations
\* list.pop(0) on a non-empty list: the element and the rest
pop0(q) == <<Head(q), Tail(q)>>

\* variant: a remove that drops every element up to and including x
RECURSIVE list_remove_through(_, _)
list_remove_through(q, x) ==
    IF q = << >> THEN << >>
    ELSE IF Head(q) = x THEN Tail(q)
    ELSE list_remove_through(Tail(q), x)

\* list.remove(x): drops the first element equal to x
RECURSIVE list_remove(_, _)
list_remove(q, x) ==
    IF q = << >> THEN << >>
    ELSE IF Head(q) = x THEN Tail(q)
    ELSE <<Head(q)>> \o list_remove(Tail(q), x)

\* variant: insertion before the equals, which makes the sort unstable
RECURSIVE insert_by_arrival_before_equals(_, _)
insert_by_arrival_before_equals(s, p) ==
    IF s = << >> THEN <<p>>
    ELSE IF p.arrival_t <= Head(s).arrival_t THEN <<p>> \o s
    ELSE <<Head(s)>> \o insert_by_arrival_before_equals(Tail(s), p)

\* insertion of p into a list sorted by arrival_t, after its equals
RECURSIVE insert_by_arrival(_, _)
insert_by_arrival(s, p) ==
    IF s = << >> THEN <<p>>
    ELSE IF p.arrival_t < Head(s).arrival_t THEN <<p>> \o s
    ELSE <<Head(s)>> \o insert_by_arrival(Tail(s), p)

\* list.sort(key=lambda p: p.arrival_t): a stable sort
RECURSIVE sort_by_arrival(_)
sort_by_arrival(q) ==
    IF q = << >> THEN << >>
    ELSE insert_by_arrival(sort_by_arrival(SubSeq(q, 1, Len(q) - 1)), q[Len(q)])

\* variant: the arrival gate written with < instead of <=
RECURSIVE filter_arrived_strict(_, _)
filter_arrived_strict(q, t) ==
    IF q = << >> THEN << >>
    ELSE IF Head(q).arrival_t < t
         THEN <<Head(q)>> \o filter_arrived_strict(Tail(q), t)
         ELSE filter_arrived_strict(Tail(q), t)

\* variant: the filter without the arrival gate
filter_arrived_no_gate(q, t) == q

\* filter(lambda p: p.arrival_t <= total_t, ready_queue)
RECURSIVE filter_arrived(_, _)
filter_arrived(q, t) ==
    IF q = << >> THEN << >>
    ELSE IF Head(q).arrival_t <= t
         THEN <<Head(q)>> \o filter_arrived(Tail(q), t)
         ELSE filter_arrived(Tail(q), t)

\* variant: a minimum that keeps the last of several equal minima
RECURSIVE min_by_burst_last(_)
min_by_burst_last(s) ==
    IF Len(s) = 1 THEN s[1]
    ELSE LET m == min_by_burst_last(SubSeq(s, 1, Len(s) - 1))
         IN  IF s[Len(s)].burst_t <= m.burst_t THEN s[Len(s)] ELSE m

\* min(s, key=lambda p: p.burst_t) on a non-empty s: the first minimum
RECURSIVE min_by_burst(_)
min_by_burst(s) ==
    IF Len(s) = 1 THEN s[1]
    ELSE LET m == min_by_burst(SubSeq(s, 1, Len(s) - 1))
         IN  IF s[Len(s)].burst_t < m.burst_t THEN s[Len(s)] ELSE m

\* variant: the clock moved forward to the arrival time before the burst
advance_total_t_idle(t, p) ==
    (IF t < p.arrival_t THEN p.arrival_t ELSE t) + p.burst_t

\* variant: the clock set to the burst time instead of advanced by it
advance_total_t_assign(t, p) == p.burst_t

\* ------------------------------------------------------ engine operations
\* the clock after the running process p ran: self.total_t += burst_t
advance_total_t(t, p) == t + p.burst_t

\* update_running_process on the running process p, t the advanced clock
update_fields(p, t) == set_waiting_t(set_turnaround_t(set_completion_t(p, t)))

\* while self.running: the position after running became r
while_test(r) == IF r = None THEN "done" ELSE "update"

\* variant: a later process put at the front of the queue
fcfs_admit_at_front(r, q, p) ==
    IF r = None THEN <<<<p>>, q>> ELSE <<r, <<p>> \o q>>

\* FCFS add_process: the new (running, ready_queue)
fcfs_admit(r, q, p) == IF r = None THEN <<<<p>>, q>> ELSE <<r, Append(q, p)>>

\* variant: the next process read from the front without being popped
fcfs_next_not_popped(q) ==
    IF q = << >> THEN <<None, q>> ELSE <<<<q[1]>>, q>>

\* variant: the next process popped from the back of the queue
fcfs_next_from_back(q) ==
    IF q = << >> THEN <<None, q>>
    ELSE <<<<q[Len(q)]>>, SubSeq(q, 1, Len(q) - 1)>>

\* FCFS next process of execute: the new (running, ready_queue)
fcfs_next(q) ==
    IF q = << >> THEN <<None, q>> ELSE <<<<pop0(q)[1]>>, pop0(q)[2]>>

\* SJF set_highest_priority_process: the new (running, ready_queue)
sjf_select(q, t) ==
    IF filter_arrived(q, t) = << >>
    THEN <<None, q>>
    ELSE LET m == min_by_burst(filter_arrived(q, t))
         IN  <<<<m>>, list_remove(q, m)>>

\* ------------------------------------------------------------ the callers
\* __main__ of fcfs_scheduler.py
fcfs_main_processes ==
    <<Process(0, 0, 5), Process(1, 1, 3), Process(2, 2, 8), Process(3, 3, 6)>>

\* __main__ of sjf_scheduler_non_preemptive.py
sjf_main_processes ==
    <<Process(1, 2, 6), Process(2, 5, 2), Process(3, 1, 8), Process(4, 0, 3),
      Process(5, 4, 4)>>

main_processes == IF engine = "FCFS" THEN fcfs_main_processes
                  ELSE sjf_main_processes

\* the processes the caller may admit next
next_inputs ==
    IF driver = "main"
    THEN IF Len(admitted) < Len(main_processes)
         THEN {main_processes[Len(admitted) + 1]}
         ELSE {}
    ELSE IF Len(admitted) < MaxProcs
         THEN {Process(Len(admitted) + 1, a, b) : a \in Arrivals, b \in Bursts}
         ELSE {}

\* the caller may call execute()
may_execute == driver = "any" \/ Len(admitted) = Len(main_processes)

\* ------------------------------------------------------------------ Init
Init ==
    /\ engine \in {"FCFS", "SJF"}
    /\ driver \in {"main", "any"}
    /\ admitted = << >>
    /\ running = None
    /\ ready_queue = << >>
    /\ history = << >>
    /\ total_t = 0
    /\ pc = "admit"
    /\ err = "none"

\* ------------------------------------------------------------------ FCFS
fcfs_add_process ==
    /\ engine = "FCFS" /\ pc = "admit"
    /\ \E p \in next_inputs :
          /\ running' = fcfs_admit(running, ready_queue, p)[1]
          /\ ready_queue' = fcfs_admit(running, ready_queue, p)[2]
          /\ admitted' = Append(admitted, p)
    /\ UNCHANGED <<engine, driver, history, total_t, pc, err>>

\* entry of execute(): the first test of the while loop
fcfs_execute ==
    /\ engine = "FCFS" /\ pc = "admit" /\ may_execute
    /\ pc' = while_test(running)
    /\ UNCHANGED <<engine, driver, admitted, running, ready_queue, history,
                   total_t, err>>

fcfs_update_running_process ==
    /\ engine = "FCFS" /\ pc = "update"
    /\ total_t' = advance_total_t(total_t, running[1])
    /\ IF set_completion_t_raises(running[1], total_t')
       THEN /\ pc' = "raised"
            /\ err' = "InvalidCompletionTimeError"
            /\ UNCHANGED running
       ELSE /\ running' = <<update_fields(running[1], total_t')>>
            /\ pc' = "append"
            /\ UNCHANGED err
    /\ UNCHANGED <<engine, driver, admitted, ready_queue, history>>

fcfs_history_append ==
    /\ engine = "FCFS" /\ pc = "append"
    /\ history' = Append(history, running[1])
    /\ pc' = "next"
    /\ UNCHANGED <<engine, driver, admitted, running, ready_queue, total_t,
                   err>>

fcfs_pop ==
    /\ engine = "FCFS" /\ pc = "next"
    /\ running' = fcfs_next(ready_queue)[1]
    /\ ready_queue' = fcfs_next(ready_queue)[2]
    /\ pc' = while_test(running')
    /\ UNCHANGED <<engine, driver, admitted, history, total_t, err>>

\* ---------------------------------------------------------------- SJF-NP
sjf_add_process ==
    /\ engine = "SJF" /\ pc = "admit"
    /\ \E p \in next_inputs :
          /\ ready_queue' = Append(ready_queue, p)
          /\ admitted' = Append(admitted, p)
    /\ UNCHANGED <<engine, driver, running, history, total_t, pc, err>>

\* entry of execute(): setup(), then the first test of the while loop;
\* pop(0) raises IndexError on an empty list, after the sort
sjf_setup ==
    /\ engine = "SJF" /\ pc = "admit" /\ may_execute
    /\ IF sort_by_arrival(ready_queue) = << >>
       THEN /\ pc' = "raised"
            /\ err' = "IndexError"
            /\ ready_queue' = sort_by_arrival(ready_queue)
            /\ UNCHANGED running
       ELSE /\ running' = <<pop0(sort_by_arrival(ready_queue))[1]>>
            /\ ready_queue' = pop0(sort_by_arrival(ready_queue))[2]
            /\ pc' = while_test(running')
            /\ UNCHANGED err
    /\ UNCHANGED <<engine, driver, admitted, history, total_t>>

sjf_update_running_process ==
    /\ engine = "SJF" /\ pc = "update"
    /\ total_t' = advance_total_t(total_t, running[1])
    /\ IF set_completion_t_raises(running[1], total_t')
       THEN /\ pc' = "raised"
            /\ err' = "InvalidCompletionTimeError"
            /\ UNCHANGED running
       ELSE /\ running' = <<update_fields(running[1], total_t')>>
            /\ pc' = "append"
            /\ UNCHANGED err
    /\ UNCHANGED <<engine, driver, admitted, ready_queue, history>>

sjf_history_append ==
    /\ engine = "SJF" /\ pc = "append"
    /\ history' = Append(history, running[1])
    /\ pc' = "next"
    /\ UNCHANGED <<engine, driver, admitted, running, ready_queue, total_t,
                   err>>

sjf_set_highest_priority_process ==
    /\ engine = "SJF" /\ pc = "next"
    /\ running' = sjf_select(ready_queue, total_t)[1]
    /\ ready_queue' = sjf_select(ready_queue, total_t)[2]
    /\ pc' = while_test(running')
    /\ UNCHANGED <<engine, driver, admitted, history, total_t, err>>

\* ------------------------------------------------------------------ Spec
Next ==
    \/ fcfs_add_process
    \/ fcfs_execute
    \/ fcfs_update_running_process
    \/ fcfs_history_append
    \/ fcfs_pop
    \/ sjf_add_process
    \/ sjf_setup
    \/ sjf_update_running_process
    \/ sjf_history_append
    \/ sjf_set_highest_priority_process

Spec == Init /\ [][Next]_vars

\* the steps execute() takes by itself once it was called: the code is
\* sequential and nothing suspends it, so a step that can be taken is taken
execute_step ==
    \/ fcfs_update_running_process
    \/ fcfs_history_append
    \/ fcfs_pop
    \/ sjf_update_running_process
    \/ sjf_history_append
    \/ sjf_set_highest_priority_process

FairSpec == Spec /\ WF_vars(execute_step)

\* ------------------------------------------------------- Process, by itself
\* A caller that holds one Process (in running) and calls its three setters
\* in any order with any time; total_t is the time it passes to
\* set_completion_t and pc the method it called last.  An exception leaves
\* the object usable.
Times == (-2)..(MaxBurst + 1)

InitProcess ==
    /\ engine = "Process"
    /\ driver = "any"
    /\ admitted = << >>
    /\ running \in {<<Process(1, a, b)>> : a \in Arrivals, b \in Bursts}
    /\ ready_queue = << >>
    /\ history = << >>
    /\ total_t = 0
    /\ pc = "new"
    /\ err = "none"

process_set_completion_t ==
    /\ engine = "Process"
    /\ \E t \in Times :
          /\ total_t' = t
          /\ err' = IF set_completion_t_raises(running[1], t)
                    THEN "InvalidCompletionTimeError" ELSE "none"
          /\ running' = <<set_completion_t(running[1], t)>>
    /\ pc' = "set_completion_t"
    /\ UNCHANGED <<engine, driver, admitted, ready_queue, history>>

process_set_turnaround_t ==
    /\ engine = "Process"
    /\ running' = <<set_turnaround_t(running[1])>>
    /\ pc' = "set_turnaround_t"
    /\ err' = "none"
    /\ UNCHANGED <<engine, driver, admitted, ready_queue, history, total_t>>

process_set_waiting_t ==
    /\ engine = "Process"
    /\ running' = <<set_waiting_t(running[1])>>
    /\ pc' = "set_waiting_t"
    /\ err' = "none"
    /\ UNCHANGED <<engine, driver, admitted, ready_queue, history, total_t>>

NextProcess ==
    \/ process_set_completion_t
    \/ process_set_turnaround_t
    \/ process_set_waiting_t

SpecProcess == InitProcess /\ [][NextProcess]_vars

\* ---------------------------------------------------------------- helpers
\* the identity and the fixed fields of a process
Ident(p) == <<p.p_id, p.arrival_t, p.burst_t>>

Idents(s) == [i \in 1..Len(s) |-> Ident(s[i])]

Ids(s) == [i \in 1..Len(s) |-> s[i].p_id]

\* every admitted process is well formed: arrival_t >= 0 and burst_t > 0
WellFormed == \A i \in 1..Len(admitted) :
                 admitted[i].arrival_t >= 0 /\ admitted[i].burst_t > 0

\* ---------------------------------------------------------------- metrics
\* a float result is the fraction <<numerator, denominator>>
RECURSIVE sum_turnaround_t(_)
sum_turnaround_t(h) ==
    IF h = << >> THEN 0
    ELSE sum_turnaround_t(SubSeq(h, 1, Len(h) - 1)) + h[Len(h)].turnaround_t[1]

RECURSIVE sum_waiting_t(_)
sum_waiting_t(h) ==
    IF h = << >> THEN 0
    ELSE sum_waiting_t(SubSeq(h, 1, Len(h) - 1)) + h[Len(h)].waiting_t[1]

\* the error calc_avg_turnaround_t raises, "none" when it returns
calc_avg_turnaround_t_raises(h) ==
    IF \E i \in 1..Len(h) : h[i].turnaround_t = None
    THEN "MissingTurnaroundTimeError"
    ELSE IF Len(h) = 0 THEN "ZeroDivisionError" ELSE "none"

calc_avg_turnaround_t(h) == <<sum_turnaround_t(h), Len(h)>>

\* the error calc_avg_waiting_t raises, "none" when it returns
calc_avg_waiting_t_raises(h) ==
    IF \E i \in 1..Len(h) : h[i].waiting_t = None
    THEN "MissingWaitingTimeError"
    ELSE IF Len(h) = 0 THEN "ZeroDivisionError" ELSE "none"

\* variant: the waiting average computed over the turnaround times
calc_avg_waiting_t_of_turnaround(h) == <<sum_turnaround_t(h), Len(h)>>

calc_avg_waiting_t(h) == <<sum_waiting_t(h), Len(h)>>

\* the fraction f equals num/den
FracEq(f, num, den) == f[2] # 0 /\ f[1] * den = num * f[2]

\* every admitted process has burst_t > 0
BurstsPositive == \A i \in 1..Len(admitted) : admitted[i].burst_t > 0

\* the values of an optional field along a list of processes
Completions(h) == [i \in 1..Len(h) |-> h[i].completion_t]
Turnarounds(h) == [i \in 1..Len(h) |-> h[i].turnaround_t]
Waitings(h) == [i \in 1..Len(h) |-> h[i].waiting_t]

\* ================================================================ claims

\* C1: FCFS, after execute() returned: history lists exactly the admitted
\* processes, the i-th admitted process being the i-th history entry,
\* whatever their arrival and burst times.
C1_FcfsHistoryIsAdmissionOrder ==
    (engine = "FCFS" /\ pc = "done") => Idents(history) = Idents(admitted)

\* C1 witness: an FCFS run has returned with three processes run, one of
\* them admitted before a process that arrives earlier.
C1_Witness ==
    /\ engine = "FCFS" /\ pc = "done" /\ Len(history) >= 3
    /\ \E i, j \in 1..Len(admitted) :
          i < j /\ admitted[i].arrival_t > admitted[j].arrival_t

\* C2: SJF-NP, every step of set_highest_priority_process that picks a
\* process: the picked process has arrived (arrival_t <= total_t), no
\* arrived process of ready_queue has a smaller burst_t, no arrived process
\* before it in ready_queue has the same burst_t, and ready_queue loses
\* exactly that entry.
C2_SelectionPicksFirstShortestArrived ==
    [][(engine = "SJF" /\ pc = "next" /\ running' # None) =>
        \E i \in 1..Len(ready_queue) :
           /\ running'[1] = ready_queue[i]
           /\ ready_queue[i].arrival_t <= total_t
           /\ \A j \in 1..Len(ready_queue) :
                 ready_queue[j].arrival_t <= total_t
                    => ready_queue[i].burst_t <= ready_queue[j].burst_t
           /\ \A j \in 1..(i - 1) :
                 ready_queue[j].arrival_t <= total_t
                    => ready_queue[i].burst_t < ready_queue[j].burst_t
           /\ ready_queue' = [k \in 1..(Len(ready_queue) - 1) |->
                                IF k < i THEN ready_queue[k]
                                ELSE ready_queue[k + 1]]]_vars

\* C2 witness: the selection has just picked a process while another
\* arrived process with the same burst_t stays in ready_queue.
C2_Witness ==
    /\ engine = "SJF" /\ pc = "update" /\ history # << >>
    /\ \E i \in 1..Len(ready_queue) :
          /\ ready_queue[i].arrival_t <= total_t
          /\ ready_queue[i].burst_t = running[1].burst_t

\* C3 (as claimed): both engines, after execute() returned without raising
\* on processes with arrival_t >= 0 and burst_t > 0, history is as long as
\* the list of admitted processes.
C3_HistoryLengthIsAdmittedCount ==
    (pc = "done" /\ WellFormed) => Len(history) = Len(admitted)

\* C4 (as claimed): both engines, when no process was admitted, execute()
\* completes without raising and leaves history empty.
C4_EmptyAdmissionCompletes ==
    (admitted = << >> /\ pc # "admit")
       => (pc = "done" /\ err = "none" /\ history = << >>)

\* C5: both engines, at every point during and after execute(): every
\* process of history has its three timing fields set, completion_t >=
\* burst_t, turnaround_t = completion_t - arrival_t and waiting_t =
\* turnaround_t - burst_t.
C5_HistoryTimingFields ==
    \A i \in 1..Len(history) :
       /\ history[i].completion_t # None
       /\ history[i].turnaround_t # None
       /\ history[i].waiting_t # None
       /\ history[i].completion_t[1] >= history[i].burst_t
       /\ history[i].turnaround_t[1] =
             history[i].completion_t[1] - history[i].arrival_t
       /\ history[i].waiting_t[1] =
             history[i].turnaround_t[1] - history[i].burst_t

\* C5 witness: execute() is between two processes, with a completed process
\* in history whose arrival_t is not zero.
C5_Witness ==
    /\ pc = "update" /\ history # << >>
    /\ \E i \in 1..Len(history) : history[i].arrival_t > 0

\* C6 (as claimed): the SJF-NP __main__ scenario runs P4, P3, P1, P5, P2.
C6_SjfMainRunOrderAsClaimed ==
    (engine = "SJF" /\ driver = "main" /\ pc = "done")
       => Ids(history) = <<4, 3, 1, 5, 2>>

\* C6 (amended): the SJF-NP __main__ scenario, P1(2,6), P2(5,2), P3(1,8),
\* P4(0,3), P5(4,4) admitted in that order, runs P4, P1, P2, P5, P3.
C6_SjfMainRunOrder ==
    (engine = "SJF" /\ driver = "main" /\ pc = "done")
       => Ids(history) = <<4, 1, 2, 5, 3>>

\* C6 witness: execute() of the SJF-NP __main__ scenario has returned with
\* the five processes run.
C6_Witness ==
    /\ engine = "SJF" /\ driver = "main" /\ pc = "done"
    /\ Idents(admitted) = <<<<1, 2, 6>>, <<2, 5, 2>>, <<3, 1, 8>>,
                            <<4, 0, 3>>, <<5, 4, 4>>>>
    /\ Len(history) = 5

\* C7: the FCFS __main__ scenario, P0(0,5), P1(1,3), P2(2,8), P3(3,6)
\* admitted in that order: completion times 5, 8, 16, 22, turnaround times
\* 5, 7, 14, 19, waiting times 0, 4, 6, 13, average waiting time 5.75.
C7_FcfsMainTimings ==
    (engine = "FCFS" /\ driver = "main" /\ pc = "done") =>
       /\ Ids(history) = <<0, 1, 2, 3>>
       /\ Completions(history) = <<<<5>>, <<8>>, <<16>>, <<22>>>>
       /\ Turnarounds(history) = <<<<5>>, <<7>>, <<14>>, <<19>>>>
       /\ Waitings(history) = <<<<0>>, <<4>>, <<6>>, <<13>>>>
       /\ calc_avg_waiting_t_raises(history) = "none"
       /\ calc_avg_waiting_t(history) = <<23, 4>>
       /\ FracEq(calc_avg_waiting_t(history), 575, 100)

\* C7 witness: execute() of the FCFS __main__ scenario has returned with
\* the four processes run.
C7_Witness ==
    /\ engine = "FCFS" /\ driver = "main" /\ pc = "done"
    /\ Idents(admitted) = <<<<0, 0, 5>>, <<1, 1, 3>>, <<2, 2, 8>>, <<3, 3, 6>>>>
    /\ Len(history) = 4

\* C8 (as claimed): SJF-NP, over the whole history including the process
\* chosen by setup: no process q runs after a process p when q has a
\* smaller burst_t and an earlier-or-equal arrival_t than p.
C8_NoShorterEarlierRunsLater ==
    (engine = "SJF" /\ WellFormed) =>
       \A i, j \in 1..Len(history) :
          i < j => ~ (/\ history[j].burst_t < history[i].burst_t
                      /\ history[j].arrival_t <= history[i].arrival_t)

\* C9: both engines, all burst times positive: completion_t does not
\* decrease along history, and total_t does not decrease in any step.
C9_ClockMonotone ==
    /\ [](BurstsPositive =>
            \A i \in 1..(Len(history) - 1) :
               history[i].completion_t[1] <= history[i + 1].completion_t[1])
    /\ [][BurstsPositive => total_t' >= total_t]_vars

\* C9 witness: three processes with positive burst times have completed.
C9_Witness ==
    /\ BurstsPositive /\ Len(history) >= 3 /\ pc = "next"

\* C10: both engines, all burst times positive: execute() never raises
\* InvalidCompletionTimeError, and in every step of update_running_process
\* the clock passed to set_completion_t is >= the running burst_t.
C10_NoInvalidCompletionTime ==
    /\ [](BurstsPositive => err # "InvalidCompletionTimeError")
    /\ [][(pc = "update" /\ BurstsPositive)
             => (total_t' >= running[1].burst_t /\ pc' = "append")]_vars

\* C10 witness: update_running_process has set the fields of the second
\* process of a run whose burst times are all positive.
C10_Witness ==
    /\ BurstsPositive /\ pc = "append" /\ Len(history) = 1
    /\ running[1].completion_t = <<total_t>>

\* the sum of f[i] over the finite set of indices I
RECURSIVE SumOver(_, _)
SumOver(I, f) ==
    IF I = {} THEN 0
    ELSE LET i == CHOOSE x \in I : TRUE IN f[i] + SumOver(I \ {i}, f)

\* C11: both engines, whenever history is not empty: calc_avg_waiting_t and
\* calc_avg_turnaround_t raise nothing and return the sum of waiting_t,
\* respectively of turnaround_t, over history divided by len(history).
C11_AveragesAreSumOverLength ==
    history # << >> =>
       /\ calc_avg_waiting_t_raises(history) = "none"
       /\ calc_avg_turnaround_t_raises(history) = "none"
       /\ FracEq(calc_avg_waiting_t(history),
                 SumOver(1..Len(history),
                         [i \in 1..Len(history) |-> history[i].waiting_t[1]]),
                 Len(history))
       /\ FracEq(calc_avg_turnaround_t(history),
                 SumOver(1..Len(history),
                         [i \in 1..Len(history) |-> history[i].turnaround_t[1]]),
                 Len(history))

\* C11 witness: execute() has returned with three processes in history
\* whose waiting times are not all equal to their turnaround times.
C11_Witness ==
    /\ pc = "done" /\ Len(history) >= 3
    /\ \E i \in 1..Len(history) :
          history[i].waiting_t # history[i].turnaround_t

\* C12: every call set_completion_t(t) on a process: when t < burst_t it
\* raises InvalidCompletionTimeError and leaves every field of the process
\* as it was; when t >= burst_t it sets completion_t to t and leaves every
\* other field as it was.
C12_SetCompletionTime ==
    [][pc' = "set_completion_t" =>
         IF total_t' < running[1].burst_t
         THEN /\ err' = "InvalidCompletionTimeError"
              /\ running' = running
         ELSE /\ err' = "none"
              /\ running'[1].completion_t = <<total_t'>>
              /\ running'[1].p_id = running[1].p_id
              /\ running'[1].arrival_t = running[1].arrival_t
              /\ running'[1].burst_t = running[1].burst_t
              /\ running'[1].turnaround_t = running[1].turnaround_t
              /\ running'[1].waiting_t = running[1].waiting_t]_vars

\* C12 witness: set_completion_t has just raised on a process whose three
\* timing fields had been set before, with a time other than the one held.
C12_Witness ==
    /\ engine = "Process" /\ pc = "set_completion_t"
    /\ err = "InvalidCompletionTimeError"
    /\ total_t < running[1].burst_t
    /\ running[1].completion_t # None
    /\ running[1].completion_t # <<total_t>>
    /\ running[1].turnaround_t # None
    /\ running[1].waiting_t # None

\* C13: SJF-NP: a selection that finds ready_queue non-empty with no
\* arrived process sets running to none and ends execute() with total_t,
\* ready_queue and history as they were; nothing changes after execute()
\* returned; and on return every process left in ready_queue has
\* arrival_t > total_t and is not in history.
C13_UnarrivedProcessesAreDropped ==
    /\ [][(/\ engine = "SJF" /\ pc = "next" /\ ready_queue # << >>
           /\ \A i \in 1..Len(ready_queue) :
                 ready_queue[i].arrival_t > total_t)
            => (/\ running' = None /\ pc' = "done"
                /\ total_t' = total_t
                /\ ready_queue' = ready_queue
                /\ history' = history)]_vars
    /\ [][pc # "done"]_vars
    /\ []((engine = "SJF" /\ pc = "done") =>
            /\ running = None
            /\ \A i \in 1..Len(ready_queue) :
                  /\ ready_queue[i].arrival_t > total_t
                  /\ \A j \in 1..Len(history) :
                        history[j].p_id # ready_queue[i].p_id)

\* C13 witness: SJF-NP execute() has returned on well-formed processes with
\* one process run and two left in ready_queue.
C13_Witness ==
    /\ engine = "SJF" /\ pc = "done" /\ WellFormed
    /\ Len(history) = 1 /\ Len(ready_queue) = 2

\* the first process an SJF-NP run runs: the first history entry, or the
\* running process while history is still empty
FirstRun == IF history # << >> THEN history[1] ELSE running[1]

\* C14: SJF-NP, non-empty admitted set, from setup() on: the first process
\* run is the admitted process with the smallest arrival_t, the first
\* admitted of those with that arrival_t, whatever its burst_t; once in
\* history its completion_t is its own burst_t; and ready_queue is in
\* ascending arrival_t order.
C14_SetupPicksEarliestArrival ==
    (engine = "SJF" /\ pc # "admit" /\ admitted # << >>) =>
       /\ \E i \in 1..Len(admitted) :
             /\ Ident(FirstRun) = Ident(admitted[i])
             /\ \A j \in 1..Len(admitted) :
                   admitted[i].arrival_t <= admitted[j].arrival_t
             /\ \A j \in 1..(i - 1) :
                   admitted[i].arrival_t < admitted[j].arrival_t
       /\ history # << >> => history[1].completion_t = <<history[1].burst_t>>
       /\ \A k \in 1..(Len(ready_queue) - 1) :
             ready_queue[k].arrival_t <= ready_queue[k + 1].arrival_t

\* C14 witness: the first process of an SJF-NP run has completed; it
\* arrived after time 0 and was admitted along with a process of the same
\* arrival_t and a smaller burst_t.
C14_Witness ==
    /\ engine = "SJF" /\ WellFormed /\ history # << >>
    /\ history[1].arrival_t > 0
    /\ \E i \in 1..Len(admitted) :
          /\ admitted[i].arrival_t = history[1].arrival_t
          /\ admitted[i].burst_t < history[1].burst_t

\* C15: FCFS, before execute(): running is the first admitted process and
\* ready_queue holds the later admitted processes in admission order; each
\* add_process call changes only running, when it was none, or only the
\* back of ready_queue, and leaves history and total_t unchanged.
C15_FcfsAddProcessFrame ==
    /\ []((engine = "FCFS" /\ pc = "admit") =>
            /\ history = << >> /\ total_t = 0
            /\ IF admitted = << >>
               THEN running = None /\ ready_queue = << >>
               ELSE running = <<admitted[1]>> /\ ready_queue = Tail(admitted))
    /\ [][(engine = "FCFS" /\ admitted' # admitted) =>
            /\ history' = history /\ total_t' = total_t
            /\ IF running = None
               THEN /\ running' = <<admitted'[Len(admitted')]>>
                    /\ ready_queue' = ready_queue
               ELSE /\ running' = running
                    /\ ready_queue' =
                          Append(ready_queue, admitted'[Len(admitted')])]_vars

\* C15 witness: three processes were admitted to a fresh FCFS engine, the
\* last one arriving before the others, and execute() was not called yet.
C15_Witness ==
    /\ engine = "FCFS" /\ pc = "admit" /\ Len(admitted) = 3
    /\ admitted[3].arrival_t < admitted[2].arrival_t
    /\ admitted[3].arrival_t < admitted[1].arrival_t
    /\ Len(ready_queue) = 2

\* the sum of burst_t over the first k entries of h
BurstSum(h, k) == SumOver(1..k, [i \in 1..Len(h) |-> h[i].burst_t])

\* C16: both engines: the completion_t of the k-th history entry is the
\* sum of the burst_t of the first k history entries, and whenever a
\* process has just been appended to history total_t is the sum of burst_t
\* over history; idle time and arrival times never enter the clock.
C16_ClockIsSumOfBursts ==
    /\ \A k \in 1..Len(history) :
          history[k].completion_t = <<BurstSum(history, k)>>
    /\ pc = "next" => total_t = BurstSum(history, Len(history))

\* C16 witness: a second process has just been appended to history, and it
\* arrived after the first one completed.
C16_Witness ==
    /\ pc = "next" /\ WellFormed /\ Len(history) = 2
    /\ history[2].arrival_t > history[1].completion_t[1]

\* C17: both engines, non-empty admitted set with positive burst times:
\* once in its loop execute() terminates; history never holds more entries
\* than processes were admitted (one loop iteration per process at most);
\* and in the final state running is none and, for FCFS, ready_queue is
\* empty.
C17_ExecuteTerminates ==
    /\ (pc \in {"update", "append", "next"} /\ BurstsPositive) ~> (pc = "done")
    /\ [](Len(history) <= Len(admitted))
    /\ [](pc = "done" =>
            /\ running = None
            /\ engine = "FCFS" => ready_queue = << >>)

\* C17 witness: FCFS execute() has returned after three loop iterations on
\* three processes with positive burst times.
C17_Witness ==
    /\ engine = "FCFS" /\ pc = "done" /\ BurstsPositive
    /\ Len(admitted) = 3 /\ Len(history) = 3

\* the number of entries of s that carry the id
Occurrences(s, id) == Cardinality({i \in 1..Len(s) : s[i].p_id = id})

\* C18: both engines, distinct admitted processes: every admitted process
\* is in exactly one of running, ready_queue and history, the process just
\* appended and not yet replaced as running counting as history; so no
\* process is twice in history; and every step leaves history as it was or
\* appends one entry to it, the earlier entries keeping their values.
C18_EachProcessInOnePlace ==
    /\ [](\A i \in 1..Len(admitted) :
             Occurrences(history, admitted[i].p_id)
             + Occurrences(ready_queue, admitted[i].p_id)
             + (IF pc = "next" THEN 0
                ELSE Occurrences(running, admitted[i].p_id)) = 1)
    /\ [][\/ history' = history
          \/ /\ Len(history') = Len(history) + 1
             /\ SubSeq(history', 1, Len(history)) = history]_vars

\* C18 witness: an SJF-NP run has just appended its second process, picked
\* from behind a process that is still queued.
C18_Witness ==
    /\ engine = "SJF" /\ pc = "next" /\ Len(history) = 2
    /\ Len(ready_queue) = 1
    /\ ready_queue[1].arrival_t <= history[2].arrival_t
    /\ ready_queue[1].p_id < history[2].p_id

\* C19: SJF-NP: every history entry but the first started no earlier than
\* it arrived: completion_t - burst_t >= arrival_t, hence waiting_t >= 0
\* and turnaround_t >= burst_t.
C19_SelectedProcessesStartAfterArrival ==
    engine = "SJF" =>
       \A k \in 2..Len(history) :
          /\ history[k].completion_t[1] - history[k].burst_t
                >= history[k].arrival_t
          /\ history[k].waiting_t[1] >= 0
          /\ history[k].turnaround_t[1] >= history[k].burst_t

\* C19 witness: an SJF-NP run on well-formed processes has completed a
\* second process that started exactly when it arrived, after time 0,
\* while the first process had started before its own arrival.
C19_Witness ==
    /\ engine = "SJF" /\ WellFormed /\ Len(history) >= 2
    /\ history[2].arrival_t > 0
    /\ history[2].waiting_t = <<0>>
    /\ history[1].waiting_t[1] < 0

\* C20 (as claimed): FCFS, processes with arrival_t >= 0 and burst_t > 0
\* admitted in non-decreasing arrival_t order: after execute() every
\* process of history has waiting_t >= 0.
C20_FcfsWaitingTimeNonNegative ==
    (/\ engine = "FCFS" /\ pc = "done" /\ WellFormed
     /\ \A i \in 1..(Len(admitted) - 1) :
           admitted[i].arrival_t <= admitted[i + 1].arrival_t)
       => \A k \in 1..Len(history) : history[k].waiting_t[1] >= 0

====
